---- MODULE Spec2Model ----
(***************************************************************************)
(* Species catalog: the LearnMoreDialog of src/app/species/                *)
(* learn-more-dialog.tsx (edit form, delete-confirmation form, the         *)
(* isEditing / isDeleting flags), the requests it sends to the backing     *)
(* store and the re-fetch that delivers new props; the list presenter      *)
(* (SpeciesList's two queries, InteractivePage's two lists and its order   *)
(* flag); and the EditEntryDialog of src/unnamed/part_000.                 *)
(*                                                                         *)
(* Encoding.  A JavaScript string is a sequence of one-character strings,  *)
(* so that trim(), concatenation and equality are computed.  A nullable    *)
(* value is Null (<<>>) or Some(v) (<<v>>); the same wrapper is used for a *)
(* form value that is `undefined`.  A JavaScript number is a record        *)
(* [units, half] standing for units + 0.5 when half, so that a non-integer *)
(* input exists.                                                           *)
(***************************************************************************)
EXTENDS Integers, Sequences, FiniteSets, TLC

\* ------------------------------------------------------------------ bounds

\* Requests (update or delete) one dialog issues in a run.
MaxRequests == 2

\* ------------------------------------------------------------ basic values

Null == <<>>
Some(v) == <<v>>
Val(o) == o[1]

Num(u, h) == [units |-> u, half |-> h]

SP == " "
\* the white space String.prototype.trim removes, as far as it is typed here
WhiteSpace == {SP, "\t", "\n"}

RECURSIVE TrimStart(_)
TrimStart(s) ==
    IF s # <<>> /\ Head(s) \in WhiteSpace THEN TrimStart(Tail(s)) ELSE s

RECURSIVE TrimEnd(_)
TrimEnd(s) ==
    IF s # <<>> /\ s[Len(s)] \in WhiteSpace
    THEN TrimEnd(SubSeq(s, 1, Len(s) - 1))
    ELSE s

\* String.prototype.trim
Trim(s) == TrimEnd(TrimStart(s))

\* ASCII letters of the strings the model types.
Alpha == {"a", "b", "d", "g"}

\* ------------------------------------------------------- speciesSchema

kingdoms == {"Animalia", "Plantae", "Fungi", "Protista", "Archaea", "Bacteria"}

\* z.string().trim().min(1)
ScientificNameValid(v) == Len(Trim(v)) >= 1
\* .transform((val) => val?.trim()) applied to the trimmed string
ScientificNameOut(v) == Trim(Trim(v))

\* Variant with a fault: only the empty string becomes null.
NullIfEmpty(o) ==
    IF o = Null THEN Null
    ELSE IF Val(o) = <<>> THEN Null
    ELSE Some(Trim(Val(o)))
\* (val) => (!val || val.trim() === "" ? null : val.trim())
NullIfBlank(o) ==
    IF o = Null THEN Null
    ELSE IF Val(o) = <<>> \/ Trim(Val(o)) = <<>> THEN Null
    ELSE Some(Trim(Val(o)))

\* z.number().int().positive().min(1).nullable()
IsInt(x) == ~x.half
IsPositive(x) == x.units > 0 \/ (x.units = 0 /\ x.half)
\* Variant with a fault: zero is let through (nonnegative for positive).
TotalPopulationValidZero(o) ==
    IF o = Null THEN TRUE
    ELSE IsInt(Val(o)) /\ Val(o).units >= 0
TotalPopulationValid(o) ==
    IF o = Null THEN TRUE
    ELSE IsInt(Val(o)) /\ IsPositive(Val(o)) /\ Val(o).units >= 1

\* z.string().url(): new URL(s) does not throw.  The URL parser strips
\* leading and trailing spaces and then needs a scheme: letters up to a ":".
IsUrl(s) ==
    LET t == Trim(s)
    IN \E i \in 2..Len(t) : t[i] = ":" /\ \A j \in 1..(i - 1) : t[j] \in Alpha

\* z.string().url().nullable(): null passes, a string must be a URL
ImageValid(o) == IF o = Null THEN TRUE ELSE IsUrl(Val(o))

\* Variant with a fault: kingdom is any string.
KingdomValidAny(k) == TRUE
\* kingdom: kingdoms
KingdomValid(k) == k \in kingdoms

\* zodResolver(speciesSchema): every field of the draft parses
SchemaValid(f) ==
    /\ ScientificNameValid(f.scientific_name)
    /\ KingdomValid(f.kingdom)
    /\ TotalPopulationValid(f.total_population)
    /\ ImageValid(f.image)

\* Variant with a fault: the draft is sent as typed, without the transforms.
SchemaOutRaw(f) == f
\* the parsed (transformed) output of speciesSchema for a valid draft
SchemaOut(f) ==
    [scientific_name |-> ScientificNameOut(f.scientific_name),
     common_name |-> NullIfBlank(f.common_name),
     kingdom |-> f.kingdom,
     total_population |-> f.total_population,
     image |-> NullIfBlank(f.image),
     description |-> NullIfBlank(f.description)]

\* z.object({ del_statement: z.string() }): undefined is not a string
DelSchemaValid(o) == o # Null

\* ---------------------------------------------------------------- records

Sessions == {"s1", "s2"}
\* session.user.id of each session
UserId(s) == IF s = "s1" THEN "u1" ELSE "u2"

\* the species rows of the store when the pages are first rendered
Row1 ==
    [id |-> 1, author |-> "u1", scientific_name |-> <<"a">>,
     common_name |-> Null, kingdom |-> "Animalia", total_population |-> Null,
     image |-> Null, description |-> Null]
Row2 ==
    [id |-> 2, author |-> "u2", scientific_name |-> <<"b">>,
     common_name |-> Some(<<"g">>), kingdom |-> "Fungi",
     total_population |-> Some(Num(1, FALSE)), image |-> Null,
     description |-> Null]

Ids == {1, 2}

\* const defaultValues = { scientific_name: species.scientific_name, ... }
DefaultValues(sp) ==
    [scientific_name |-> sp.scientific_name,
     common_name |-> sp.common_name,
     kingdom |-> sp.kingdom,
     total_population |-> sp.total_population,
     image |-> sp.image,
     description |-> sp.description]

\* const delDefault = { del_statement: "" }
delDefault == Some(<<>>)

\* useForm({ resolver, delDefault, mode }): the object is passed under the
\* key delDefault, not defaultValues, so the form starts without a value
\* for del_statement (undefined).
DelFormInitial == Null

\* `DELETE ${species.scientific_name}`
DeletePrefix == <<"D", "E", "L", "E", "T", "E", " ">>
Challenge(sp) == DeletePrefix \o sp.scientific_name

\* Variant with a fault: the input is trimmed before it is compared.
ChallengeAcceptedTrimmed(input, sp) == Trim(input) = Challenge(sp)
\* delInput.del_statement === `DELETE ${species.scientific_name}`
ChallengeAccepted(input, sp) == input = Challenge(sp)

\* ------------------------------------------------------------ user inputs

Fields ==
    {"scientific_name", "common_name", "kingdom", "total_population", "image",
     "description"}

\* What the user types into a field of the edit form (field.onChange): a
\* name that needs trimming, a blank name, a common name that needs
\* trimming, and a cleared population input.  The other fields keep the
\* values of the row.
FieldInputs(f) ==
    CASE f = "scientific_name" -> {<<" ", "b">>, <<" ">>}
      [] f = "common_name" -> {Some(<<"g", " ">>)}
      [] f = "kingdom" -> {}
      \* onChange: field.onChange(+event.target.value); +"" is 0
      [] f = "total_population" ->
            {Some(Num(0, FALSE))}
      [] f = "image" -> {}
      [] f = "description" -> {}

LowerPrefix == <<"d", "e", "l", "e", "t", "e", " ">>
\* what the user types into the delete form's input
DelInputs ==
    {DeletePrefix \o n : n \in {<<"a">>, <<"b">>}}
    \cup {LowerPrefix \o <<"a">>, DeletePrefix \o <<"a", " ">>}

\* error.message of a failed request
ErrorMessages == {"permission denied", "network error"}

VARIABLES
    store,          \* id -> Null | Some(row): the species table
    species,        \* session -> the row the dialog got as its species prop
    mounted,        \* session -> the card (and its dialog) is on the page
    open,           \* session -> the <Dialog> is open
    isEditing,      \* session -> useState flag
    isDeleting,     \* session -> useState flag
    form,           \* session -> values of the edit form
    delStatement,   \* session -> value of delForm's del_statement
    pending,        \* session -> requests awaiting their response
    refreshes,      \* session -> router.refresh() calls not yet delivered
    nValidSubmits,  \* session -> edit submits that passed validation
    nUpdates,       \* session -> update requests issued
    nDeletes,       \* session -> delete requests issued
    baseline,       \* session -> history: values last confirmed committed
    page,           \* session -> InteractivePage: its two lists and its flag
    fetching,       \* session -> SpeciesList between its two queries
    out             \* what the last step did: handler, request, toast, refresh

vars ==
    <<store, species, mounted, open, isEditing, isDeleting, form,
      delStatement, pending, refreshes, nValidSubmits, nUpdates, nDeletes,
      baseline, page, fetching, out>>


\* ------------------------------------------------------------ step output

\* toast({ title, description, variant })
ErrorToast(msg) ==
    [title |-> "Something went wrong.", arg |-> Null, description |-> msg,
     variant |-> "destructive"]
\* toast({ title: `${species.scientific_name} was successfully deleted` })
DeletedToast(name) ==
    [title |-> "was successfully deleted", arg |-> Some(name),
     description |-> "", variant |-> "default"]
\* toast({ title: `${species.common_name} data was updated successfully!` })
UpdatedToast(common) ==
    [title |-> "data was updated successfully!", arg |-> common,
     description |-> "", variant |-> "default"]

\* What a step of a handler did: the handler (op) and the session it ran
\* in, the value it was called with (arg), the request it sent or whose
\* response it handled (req), the toast it raised, and whether it called
\* router.refresh().
Emit(s, op, arg, req, toast, refresh) ==
    [session |-> s, op |-> op, arg |-> arg, req |-> req, toast |-> toast,
     refresh |-> refresh]

\* a step that calls no handler of the dialog, or one that emits nothing
Idle == Emit("s1", "idle", Null, Null, Null, FALSE)

Issued(s) == nUpdates[s] + nDeletes[s]

\* supabase.from("species").update({...}).eq("id", species.id)
UpdateRequest(s, input) ==
    [n |-> Issued(s) + 1, kind |-> "update", id |-> species[s].id,
     payload |-> Some(input), result |-> "sent",
     sci |-> species[s].scientific_name, common |-> species[s].common_name,
     draft |-> Some(form[s])]

\* supabase.from("species").delete().eq("id", species.id)
DeleteRequest(s) ==
    [n |-> Issued(s) + 1, kind |-> "delete", id |-> species[s].id,
     payload |-> Null, result |-> "sent",
     sci |-> species[s].scientific_name, common |-> species[s].common_name,
     draft |-> Null]

\* ------------------------------------------------------------------ render

\* Variant with a fault: every session passes for the author.
IsAuthorAnyone(s) == TRUE
\* userId === species.author
IsAuthor(s) == UserId(s) = species[s].author

\* Variant with a fault: the buttons are rendered without the author guard.
ControlsNoGuard(s) ==
    IF ~(mounted[s] /\ open[s]) THEN {}
    ELSE IF isDeleting[s] THEN {"del_statement", "cancel", "submitDelete"}
    ELSE (IF isEditing[s] THEN {"fields", "submitEdit", "cancel"}
          ELSE {"startEditing", "renderDelete"})
\* Variant with a fault: "Delete Entry" is rendered while editing too.
ControlsDeleteWhileEditing(s) ==
    IF ~(mounted[s] /\ open[s]) THEN {}
    ELSE IF isDeleting[s] THEN {"del_statement", "cancel", "submitDelete"}
    ELSE (IF isEditing[s] THEN {"fields"} ELSE {})
         \cup (IF IsAuthor(s)
               THEN (IF isEditing[s]
                     THEN {"submitEdit", "cancel", "renderDelete"}
                     ELSE {"startEditing", "renderDelete"})
               ELSE {})
\* The controls the dialog renders (the JSX of LearnMoreDialog): the delete
\* form when isDeleting; otherwise the edit form, whose fields can be typed
\* into when isEditing, and, for the author only, its buttons.
Controls(s) ==
    IF ~(mounted[s] /\ open[s]) THEN {}
    ELSE IF isDeleting[s] THEN {"del_statement", "cancel", "submitDelete"}
    ELSE (IF isEditing[s] THEN {"fields"} ELSE {})
         \cup (IF IsAuthor(s)
               THEN (IF isEditing[s] THEN {"submitEdit", "cancel"}
                     ELSE {"startEditing", "renderDelete"})
               ELSE {})

\* ------------------------------------------------------------ SpeciesList

\* the rows of the table
Rows(st) == {Val(st[i]) : i \in {j \in Ids : st[j] # Null}}

\* the sequences that list every row of S once
Listings(S) ==
    {q \in [1..Cardinality(S) -> S] :
        \A i, j \in 1..Cardinality(S) : i # j => q[i] # q[j]}

\* the order of the characters in names
Collation == <<" ", "a", "b", "c", "d", "g">>
CharRank(c) == CHOOSE i \in 1..Len(Collation) : Collation[i] = c

RECURSIVE NameLeq(_, _)
\* a sorts before b, or equals it
NameLeq(a, b) ==
    IF a = <<>> THEN TRUE
    ELSE IF b = <<>> THEN FALSE
    ELSE IF Head(a) # Head(b) THEN CharRank(Head(a)) < CharRank(Head(b))
    ELSE NameLeq(Tail(a), Tail(b))

\* select("*").order("id", { ascending: false })
SelectByIdDescending(st) ==
    {q \in Listings(Rows(st)) :
        \A i, j \in 1..Len(q) : i < j => q[i].id > q[j].id}

\* select("*").order("scientific_name", { ascending: true }): rows with
\* equal names come in either order
SelectByScientificName(st) ==
    {q \in Listings(Rows(st)) :
        \A i, j \in 1..Len(q) :
            i < j => NameLeq(q[i].scientific_name, q[j].scientific_name)}

\* InteractivePage as first rendered: the two lists of the initial table,
\* useState(false) for alphabetical
PageInitial ==
    [species |-> <<Row2, Row1>>, alphaSpecies |-> <<Row1, Row2>>,
     alphabetical |-> FALSE]

\* {alphabetical ? alphaSpecies.map(...) : species.map(...)}
Displayed(pg) == IF pg.alphabetical THEN pg.alphaSpecies ELSE pg.species

\* the rows of the displayed list with this id (one SpeciesCard each)
Cards(pg, id) ==
    {Displayed(pg)[i] : i \in {j \in 1..Len(Displayed(pg)) :
                                  Displayed(pg)[j].id = id}}

\* ------------------------------------------------------------------- Init

Init ==
    /\ store = [i \in Ids |-> IF i = 1 THEN Some(Row1) ELSE Some(Row2)]
    /\ species = [s \in Sessions |-> Row1]
    /\ mounted = [s \in Sessions |-> TRUE]
    /\ open = [s \in Sessions |-> FALSE]
    /\ isEditing = [s \in Sessions |-> FALSE]
    /\ isDeleting = [s \in Sessions |-> FALSE]
    /\ form = [s \in Sessions |-> DefaultValues(Row1)]
    /\ delStatement = [s \in Sessions |-> DelFormInitial]
    /\ pending = [s \in Sessions |-> {}]
    /\ refreshes = [s \in Sessions |-> 0]
    /\ nValidSubmits = [s \in Sessions |-> 0]
    /\ nUpdates = [s \in Sessions |-> 0]
    /\ nDeletes = [s \in Sessions |-> 0]
    /\ baseline = [s \in Sessions |-> DefaultValues(Row1)]
    /\ page = [s \in Sessions |-> PageInitial]
    /\ fetching = [s \in Sessions |-> Null]
    /\ out = Idle

\* ---------------------------------------------------------------- actions

\* <DialogTrigger>: the "Learn More" button
OpenDialog(s) ==
    /\ mounted[s] /\ ~open[s]
    /\ open' = [open EXCEPT ![s] = TRUE]
    /\ out' = Idle
    /\ UNCHANGED <<store, species, mounted, isEditing, isDeleting, form,
                   delStatement, pending, refreshes, nValidSubmits, nUpdates,
                   nDeletes, baseline>>
    /\ UNCHANGED <<page, fetching>>

\* closing the <Dialog> (escape, overlay click, the close button): the
\* component's hooks live outside <DialogContent>, so their state stays
CloseDialog(s) ==
    /\ mounted[s] /\ open[s]
    /\ open' = [open EXCEPT ![s] = FALSE]
    /\ out' = Idle
    /\ UNCHANGED <<store, species, mounted, isEditing, isDeleting, form,
                   delStatement, pending, refreshes, nValidSubmits, nUpdates,
                   nDeletes, baseline>>
    /\ UNCHANGED <<page, fetching>>

startEditing(s) ==
    /\ "startEditing" \in Controls(s)
    /\ isEditing' = [isEditing EXCEPT ![s] = TRUE]
    /\ out' = Idle
    /\ UNCHANGED <<store, species, mounted, open, isDeleting, form,
                   delStatement, pending, refreshes, nValidSubmits, nUpdates,
                   nDeletes, baseline>>
    /\ UNCHANGED <<page, fetching>>

renderDelete(s) ==
    /\ "renderDelete" \in Controls(s)
    /\ isDeleting' = [isDeleting EXCEPT ![s] = TRUE]
    /\ out' = Idle
    /\ UNCHANGED <<store, species, mounted, open, isEditing, form,
                   delStatement, pending, refreshes, nValidSubmits, nUpdates,
                   nDeletes, baseline>>
    /\ UNCHANGED <<page, fetching>>

\* form.reset(defaultValues); delForm.reset(delDefault);
\* setIsEditing(false); setIsDeleting(false)
handleCancel(s) ==
    /\ "cancel" \in Controls(s)
    /\ form' = [form EXCEPT ![s] = DefaultValues(species[s])]
    /\ delStatement' = [delStatement EXCEPT ![s] = delDefault]
    /\ isEditing' = [isEditing EXCEPT ![s] = FALSE]
    /\ isDeleting' = [isDeleting EXCEPT ![s] = FALSE]
    /\ out' = Emit(s, "handleCancel", Null, Null, Null, FALSE)
    /\ UNCHANGED <<store, species, mounted, open, pending, refreshes,
                   nValidSubmits, nUpdates, nDeletes, baseline>>
    /\ UNCHANGED <<page, fetching>>

\* typing into a field of the edit form (readOnly / disabled unless isEditing)
TypeField(s, f, v) ==
    /\ "fields" \in Controls(s)
    /\ form[s][f] # v
    /\ form' = [form EXCEPT ![s][f] = v]
    /\ out' = Idle
    /\ UNCHANGED <<store, species, mounted, open, isEditing, isDeleting,
                   delStatement, pending, refreshes, nValidSubmits, nUpdates,
                   nDeletes, baseline>>
    /\ UNCHANGED <<page, fetching>>

\* typing into the delete form's input
TypeDelete(s, v) ==
    /\ "del_statement" \in Controls(s)
    /\ delStatement[s] # Some(v)
    /\ delStatement' = [delStatement EXCEPT ![s] = Some(v)]
    /\ out' = Idle
    /\ UNCHANGED <<store, species, mounted, open, isEditing, isDeleting, form,
                   pending, refreshes, nValidSubmits, nUpdates, nDeletes,
                   baseline>>
    /\ UNCHANGED <<page, fetching>>

\* Variant with a fault: onSubmit runs whatever the resolver reports.
HandleSubmitAlways(f) == TRUE
\* form.handleSubmit(onSubmit): onSubmit runs only when the resolver
\* reports no error
HandleSubmitPasses(f) == SchemaValid(f)

\* Click on "Edit Entry" with a draft the resolver rejects: the errors are
\* shown next to the fields and nothing else happens.
SubmitEditInvalid(s) ==
    /\ "submitEdit" \in Controls(s)
    /\ ~HandleSubmitPasses(form[s])
    /\ out' = Emit(s, "submitEdit", Some(form[s]), Null, Null, FALSE)
    /\ UNCHANGED <<store, species, mounted, open, isEditing, isDeleting, form,
                   delStatement, pending, refreshes, nValidSubmits, nUpdates,
                   nDeletes, baseline>>
    /\ UNCHANGED <<page, fetching>>

\* Click on "Edit Entry" with a draft that parses: onSubmit(input) runs up
\* to its await, with input the schema's output.
SubmitEditValid(s) ==
    /\ "submitEdit" \in Controls(s)
    /\ HandleSubmitPasses(form[s])
    /\ Issued(s) < MaxRequests
    /\ nValidSubmits' = [nValidSubmits EXCEPT ![s] = @ + 1]
    /\ LET r == UpdateRequest(s, SchemaOut(form[s]))
       IN /\ pending' = [pending EXCEPT ![s] = @ \cup {r}]
          /\ out' = Emit(s, "submitEdit", Some(form[s]), Some(r), Null,
                         FALSE)
    /\ nUpdates' = [nUpdates EXCEPT ![s] = @ + 1]
    /\ UNCHANGED <<store, species, mounted, open, isEditing, isDeleting, form,
                   delStatement, refreshes, nDeletes, baseline>>
    /\ UNCHANGED <<page, fetching>>

\* Click on "DELETE ENTRY" while del_statement is undefined: delSchema
\* rejects it and onDelete is not called.
SubmitDeleteUndefined(s) ==
    /\ "submitDelete" \in Controls(s)
    /\ ~DelSchemaValid(delStatement[s])
    /\ out' = Emit(s, "submitDelete", delStatement[s], Null, Null, FALSE)
    /\ UNCHANGED <<store, species, mounted, open, isEditing, isDeleting, form,
                   delStatement, pending, refreshes, nValidSubmits, nUpdates,
                   nDeletes, baseline>>
    /\ UNCHANGED <<page, fetching>>

\* onDelete, the branch after the if: delForm.reset(delDefault) and the
\* "Improper deletion input" toast
SubmitDeleteMismatch(s) ==
    /\ "submitDelete" \in Controls(s)
    /\ DelSchemaValid(delStatement[s])
    /\ ~ChallengeAccepted(Val(delStatement[s]), species[s])
    /\ delStatement' = [delStatement EXCEPT ![s] = delDefault]
    /\ out' = Emit(s, "submitDelete", delStatement[s], Null,
                   Some(ErrorToast("Improper deletion input")), FALSE)
    /\ UNCHANGED <<store, species, mounted, open, isEditing, isDeleting, form,
                   pending, refreshes, nValidSubmits, nUpdates, nDeletes,
                   baseline>>
    /\ UNCHANGED <<page, fetching>>

\* onDelete, the if branch up to its await
SubmitDeleteMatch(s) ==
    /\ "submitDelete" \in Controls(s)
    /\ DelSchemaValid(delStatement[s])
    /\ ChallengeAccepted(Val(delStatement[s]), species[s])
    /\ Issued(s) < MaxRequests
    /\ LET r == DeleteRequest(s)
       IN /\ pending' = [pending EXCEPT ![s] = @ \cup {r}]
          /\ out' = Emit(s, "submitDelete", delStatement[s], Some(r), Null,
                         FALSE)
    /\ nDeletes' = [nDeletes EXCEPT ![s] = @ + 1]
    /\ UNCHANGED <<store, species, mounted, open, isEditing, isDeleting, form,
                   delStatement, refreshes, nValidSubmits, nUpdates, baseline>>
    /\ UNCHANGED <<page, fetching>>

\* the row after update(payload).eq("id", id): the six fields are replaced
UpdatedRow(row, payload) ==
    [id |-> row.id, author |-> row.author,
     scientific_name |-> payload.scientific_name,
     common_name |-> payload.common_name,
     kingdom |-> payload.kingdom,
     total_population |-> payload.total_population,
     image |-> payload.image,
     description |-> payload.description]

\* Variant with a fault: the request is applied without .eq("id", ...).
AppliedNoEq(r) ==
    [i \in Ids |->
        IF store[i] = Null THEN store[i]
        ELSE IF r.kind = "delete" THEN Null
        ELSE Some(UpdatedRow(Val(store[i]), Val(r.payload)))]
\* the table after a request the store accepts
Applied(r) ==
    [i \in Ids |->
        IF i # r.id \/ store[i] = Null THEN store[i]
        ELSE IF r.kind = "delete" THEN Null
        ELSE Some(UpdatedRow(Val(store[i]), Val(r.payload)))]

\* the store executes a request and answers { error: null }
BackendAccept(s, r) ==
    /\ r \in pending[s] /\ r.result = "sent"
    /\ store' = Applied(r)
    /\ pending' =
        [pending EXCEPT ![s] = (@ \ {r}) \cup {[r EXCEPT !.result = "ok"]}]
    /\ out' = Idle
    /\ UNCHANGED <<species, mounted, open, isEditing, isDeleting, form,
                   delStatement, refreshes, nValidSubmits, nUpdates, nDeletes,
                   baseline>>
    /\ UNCHANGED <<page, fetching>>

\* the store (or the network) fails a request and answers { error }
BackendReject(s, r, msg) ==
    /\ r \in pending[s] /\ r.result = "sent"
    /\ pending' =
        [pending EXCEPT ![s] = (@ \ {r}) \cup {[r EXCEPT !.result = msg]}]
    /\ out' = Idle
    /\ UNCHANGED <<store, species, mounted, open, isEditing, isDeleting, form,
                   delStatement, refreshes, nValidSubmits, nUpdates, nDeletes,
                   baseline>>
    /\ UNCHANGED <<page, fetching>>

\* Variant with a fault: the failed request is sent again.
OnSubmitErrorRetry(s, r) ==
    /\ r \in pending[s] /\ r.kind = "update" /\ r.result \in ErrorMessages
    /\ pending' =
        [pending EXCEPT ![s] = (@ \ {r}) \cup {[r EXCEPT !.result = "sent"]}]
    /\ nUpdates' = [nUpdates EXCEPT ![s] = @ + 1]
    /\ out' = Emit(s, "updateError", Null, Some(r), Some(ErrorToast(r.result)),
                   FALSE)
    /\ UNCHANGED <<store, species, mounted, open, isEditing, isDeleting, form,
                   delStatement, refreshes, nValidSubmits, nDeletes, baseline>>
    /\ UNCHANGED <<page, fetching>>
\* onSubmit after its await, if (error): the toast and nothing else
OnSubmitError(s, r) ==
    /\ r \in pending[s] /\ r.kind = "update" /\ r.result \in ErrorMessages
    /\ pending' = [pending EXCEPT ![s] = @ \ {r}]
    /\ out' = Emit(s, "updateError", Null, Some(r), Some(ErrorToast(r.result)),
                   FALSE)
    /\ UNCHANGED <<store, species, mounted, open, isEditing, isDeleting, form,
                   delStatement, refreshes, nValidSubmits, nUpdates, nDeletes,
                   baseline>>
    /\ UNCHANGED <<page, fetching>>

\* Variant with a fault: form.reset(input) is left out.
OnSubmitSuccessNoReset(s, r) ==
    /\ r \in pending[s] /\ r.kind = "update" /\ r.result = "ok"
    /\ pending' = [pending EXCEPT ![s] = @ \ {r}]
    /\ isEditing' = [isEditing EXCEPT ![s] = FALSE]
    /\ refreshes' = [refreshes EXCEPT ![s] = @ + 1]
    /\ baseline' = [baseline EXCEPT ![s] = Val(r.payload)]
    /\ out' = Emit(s, "updateOk", Null, Some(r), Some(UpdatedToast(r.common)),
                   TRUE)
    /\ UNCHANGED <<store, species, mounted, open, isDeleting, delStatement,
                   form, nValidSubmits, nUpdates, nDeletes>>
    /\ UNCHANGED <<page, fetching>>
\* onSubmit after its await, no error: setIsEditing(false);
\* form.reset(input); router.refresh(); the success toast.  baseline
\* records the payload as the values now confirmed committed.
OnSubmitSuccess(s, r) ==
    /\ r \in pending[s] /\ r.kind = "update" /\ r.result = "ok"
    /\ pending' = [pending EXCEPT ![s] = @ \ {r}]
    /\ isEditing' = [isEditing EXCEPT ![s] = FALSE]
    /\ form' = [form EXCEPT ![s] = Val(r.payload)]
    /\ refreshes' = [refreshes EXCEPT ![s] = @ + 1]
    /\ baseline' = [baseline EXCEPT ![s] = Val(r.payload)]
    /\ out' = Emit(s, "updateOk", Null, Some(r), Some(UpdatedToast(r.common)),
                   TRUE)
    /\ UNCHANGED <<store, species, mounted, open, isDeleting, delStatement,
                   nValidSubmits, nUpdates, nDeletes>>
    /\ UNCHANGED <<page, fetching>>

\* Variant with a fault: the error is dropped without a toast.
OnDeleteErrorSilent(s, r) ==
    /\ r \in pending[s] /\ r.kind = "delete" /\ r.result \in ErrorMessages
    /\ pending' = [pending EXCEPT ![s] = @ \ {r}]
    /\ out' = Emit(s, "deleteError", Null, Some(r), Null, FALSE)
    /\ UNCHANGED <<store, species, mounted, open, isEditing, isDeleting, form,
                   delStatement, refreshes, nValidSubmits, nUpdates, nDeletes,
                   baseline>>
    /\ UNCHANGED <<page, fetching>>
\* Variant with a fault: the error branch also leaves the delete form.
OnDeleteErrorLeaves(s, r) ==
    /\ r \in pending[s] /\ r.kind = "delete" /\ r.result \in ErrorMessages
    /\ pending' = [pending EXCEPT ![s] = @ \ {r}]
    /\ isDeleting' = [isDeleting EXCEPT ![s] = FALSE]
    /\ out' = Emit(s, "deleteError", Null, Some(r), Some(ErrorToast(r.result)),
                   FALSE)
    /\ UNCHANGED <<store, species, mounted, open, isEditing, form,
                   delStatement, refreshes, nValidSubmits, nUpdates, nDeletes,
                   baseline>>
    /\ UNCHANGED <<page, fetching>>
\* onDelete after its await, if (error): the toast and nothing else
OnDeleteError(s, r) ==
    /\ r \in pending[s] /\ r.kind = "delete" /\ r.result \in ErrorMessages
    /\ pending' = [pending EXCEPT ![s] = @ \ {r}]
    /\ out' = Emit(s, "deleteError", Null, Some(r), Some(ErrorToast(r.result)),
                   FALSE)
    /\ UNCHANGED <<store, species, mounted, open, isEditing, isDeleting, form,
                   delStatement, refreshes, nValidSubmits, nUpdates, nDeletes,
                   baseline>>
    /\ UNCHANGED <<page, fetching>>

\* Variant with a fault: router.refresh() is left out.
OnDeleteSuccessNoRefresh(s, r) ==
    /\ r \in pending[s] /\ r.kind = "delete" /\ r.result = "ok"
    /\ pending' = [pending EXCEPT ![s] = @ \ {r}]
    /\ delStatement' = [delStatement EXCEPT ![s] = delDefault]
    /\ isDeleting' = [isDeleting EXCEPT ![s] = FALSE]
    /\ isEditing' = [isEditing EXCEPT ![s] = FALSE]
    /\ out' = Emit(s, "deleteOk", Null, Some(r), Some(DeletedToast(r.sci)),
                   FALSE)
    /\ UNCHANGED <<store, species, mounted, open, form, refreshes,
                   nValidSubmits, nUpdates, nDeletes, baseline>>
    /\ UNCHANGED <<page, fetching>>
\* onDelete after its await, no error: delForm.reset(delDefault);
\* setIsDeleting(false); setIsEditing(false); router.refresh(); the toast
OnDeleteSuccess(s, r) ==
    /\ r \in pending[s] /\ r.kind = "delete" /\ r.result = "ok"
    /\ pending' = [pending EXCEPT ![s] = @ \ {r}]
    /\ delStatement' = [delStatement EXCEPT ![s] = delDefault]
    /\ isDeleting' = [isDeleting EXCEPT ![s] = FALSE]
    /\ isEditing' = [isEditing EXCEPT ![s] = FALSE]
    /\ refreshes' = [refreshes EXCEPT ![s] = @ + 1]
    /\ out' = Emit(s, "deleteOk", Null, Some(r), Some(DeletedToast(r.sci)),
                   TRUE)
    /\ UNCHANGED <<store, species, mounted, open, form, nValidSubmits,
                   nUpdates, nDeletes, baseline>>
    /\ UNCHANGED <<page, fetching>>

\* The cards of a page that now displays pg, seen from the dialog of record
\* species[s].id.  The cards are keyed by id: a card that stays gets the
\* row of the displayed list as its species prop and keeps its state, a
\* card whose row is not listed is unmounted, and a card that appears is
\* mounted with the state of a new LearnMoreDialog.
Reconcile(s, pg) ==
    LET cards == Cards(pg, species[s].id)
    IN IF cards = {}
       THEN /\ mounted' = [mounted EXCEPT ![s] = FALSE]
            /\ open' = [open EXCEPT ![s] = FALSE]
            /\ UNCHANGED <<species, isEditing, isDeleting, form,
                           delStatement>>
       ELSE \E row \in cards :
               /\ species' = [species EXCEPT ![s] = row]
               /\ IF mounted[s]
                  THEN UNCHANGED <<mounted, open, isEditing, isDeleting,
                                   form, delStatement>>
                  ELSE /\ mounted' = [mounted EXCEPT ![s] = TRUE]
                       /\ open' = [open EXCEPT ![s] = FALSE]
                       /\ isEditing' = [isEditing EXCEPT ![s] = FALSE]
                       /\ isDeleting' = [isDeleting EXCEPT ![s] = FALSE]
                       /\ form' = [form EXCEPT ![s] = DefaultValues(row)]
                       /\ delStatement' =
                            [delStatement EXCEPT ![s] = DelFormInitial]

\* Variant with a fault: the toggle also asks for a re-fetch.
setAlphabeticalRefetch(s) ==
    /\ page' = [page EXCEPT ![s].alphabetical = ~@]
    /\ Reconcile(s, [page[s] EXCEPT !.alphabetical = ~@])
    /\ refreshes' = [refreshes EXCEPT ![s] = @ + 1]
    /\ out' = Emit(s, "setAlphabetical", Null, Null, Null, TRUE)
    /\ UNCHANGED <<store, pending, nValidSubmits, nUpdates, nDeletes,
                   baseline, fetching>>
\* onClick={() => setAlphabetical(!alphabetical)}: the other list is
\* rendered
setAlphabetical(s) ==
    /\ page' = [page EXCEPT ![s].alphabetical = ~@]
    /\ Reconcile(s, [page[s] EXCEPT !.alphabetical = ~@])
    /\ out' = Emit(s, "setAlphabetical", Null, Null, Null, FALSE)
    /\ UNCHANGED <<store, pending, refreshes, nValidSubmits, nUpdates,
                   nDeletes, baseline, fetching>>

\* router.refresh() renders SpeciesList again; its first query is answered
SelectSpecies(s) ==
    /\ refreshes[s] > 0 /\ fetching[s] = Null
    /\ \E q \in SelectByIdDescending(store) :
          fetching' = [fetching EXCEPT ![s] = Some(q)]
    /\ out' = Idle
    /\ UNCHANGED <<store, species, mounted, open, isEditing, isDeleting, form,
                   delStatement, pending, refreshes, nValidSubmits, nUpdates,
                   nDeletes, baseline, page>>

\* router.refresh() completes: the second query is answered and
\* InteractivePage gets both lists; each card of the displayed list gets its
\* row as its new species prop; a row that is not listed has no card
RefreshDeliver(s) ==
    /\ refreshes[s] > 0 /\ fetching[s] # Null
    /\ refreshes' = [refreshes EXCEPT ![s] = @ - 1]
    /\ fetching' = [fetching EXCEPT ![s] = Null]
    /\ \E q \in SelectByScientificName(store) :
          LET pg == [page[s] EXCEPT !.species = Val(fetching[s]),
                                    !.alphaSpecies = q]
          IN page' = [page EXCEPT ![s] = pg] /\ Reconcile(s, pg)
    /\ out' = Idle
    /\ UNCHANGED <<store, pending, nValidSubmits, nUpdates, nDeletes,
                   baseline>>

Next ==
    \/ \E s \in Sessions : OpenDialog(s)
    \/ \E s \in Sessions : CloseDialog(s)
    \/ \E s \in Sessions : startEditing(s)
    \/ \E s \in Sessions : renderDelete(s)
    \/ \E s \in Sessions : handleCancel(s)
    \/ \E s \in Sessions : \E f \in Fields : \E v \in FieldInputs(f) : TypeField(s, f, v)
    \/ \E s \in Sessions : \E v \in DelInputs : TypeDelete(s, v)
    \/ \E s \in Sessions : SubmitEditInvalid(s)
    \/ \E s \in Sessions : SubmitEditValid(s)
    \/ \E s \in Sessions : SubmitDeleteUndefined(s)
    \/ \E s \in Sessions : SubmitDeleteMismatch(s)
    \/ \E s \in Sessions : SubmitDeleteMatch(s)
    \/ \E s \in Sessions : \E r \in pending[s] : BackendAccept(s, r)
    \/ \E s \in Sessions : \E r \in pending[s] : \E m \in ErrorMessages : BackendReject(s, r, m)
    \/ \E s \in Sessions : \E r \in pending[s] : OnSubmitError(s, r)
    \/ \E s \in Sessions : \E r \in pending[s] : OnSubmitSuccess(s, r)
    \/ \E s \in Sessions : \E r \in pending[s] : OnDeleteError(s, r)
    \/ \E s \in Sessions : \E r \in pending[s] : OnDeleteSuccess(s, r)
    \/ \E s \in Sessions : SelectSpecies(s)
    \/ \E s \in Sessions : RefreshDeliver(s)

Spec == Init /\ [][Next]_vars

\* ------------------------------------------------------- the list presenter

\* the delete request the author of record 1 has sent
ListDeleteRequest ==
    [n |-> 1, kind |-> "delete", id |-> Row1.id, payload |-> Null,
     result |-> "sent", sci |-> Row1.scientific_name,
     common |-> Row1.common_name, draft |-> Null]

\* the draft the author of record 2 has submitted: the record renamed
ListDraft == [DefaultValues(Row2) EXCEPT !.scientific_name = <<"c", " ">>]

\* the update request the author of record 2 has sent
ListUpdateRequest ==
    [n |-> 1, kind |-> "update", id |-> Row2.id,
     payload |-> Some(SchemaOut(ListDraft)), result |-> "sent",
     sci |-> Row2.scientific_name, common |-> Row2.common_name,
     draft |-> Some(ListDraft)]

\* Both users have the page open, each with the dialog of the own record:
\* s1 has typed the challenge and sent the delete of record 1, s2 has
\* edited record 2 and sent the update.
ListInit ==
    /\ store = [i \in Ids |-> IF i = 1 THEN Some(Row1) ELSE Some(Row2)]
    /\ species = [s \in Sessions |-> IF s = "s1" THEN Row1 ELSE Row2]
    /\ mounted = [s \in Sessions |-> TRUE]
    /\ open = [s \in Sessions |-> TRUE]
    /\ isEditing = [s \in Sessions |-> s = "s2"]
    /\ isDeleting = [s \in Sessions |-> s = "s1"]
    /\ form = [s \in Sessions |->
                 IF s = "s1" THEN DefaultValues(Row1) ELSE ListDraft]
    /\ delStatement = [s \in Sessions |->
                         IF s = "s1" THEN Some(Challenge(Row1))
                         ELSE DelFormInitial]
    /\ pending = [s \in Sessions |->
                    IF s = "s1" THEN {ListDeleteRequest}
                    ELSE {ListUpdateRequest}]
    /\ refreshes = [s \in Sessions |-> 0]
    /\ nValidSubmits = [s \in Sessions |-> IF s = "s2" THEN 1 ELSE 0]
    /\ nUpdates = [s \in Sessions |-> IF s = "s2" THEN 1 ELSE 0]
    /\ nDeletes = [s \in Sessions |-> IF s = "s1" THEN 1 ELSE 0]
    /\ baseline = [s \in Sessions |->
                     IF s = "s1" THEN DefaultValues(Row1)
                     ELSE DefaultValues(Row2)]
    /\ page = [s \in Sessions |-> PageInitial]
    /\ fetching = [s \in Sessions |-> Null]
    /\ out = Idle

\* The requests are answered and handled, the pages are fetched again
\* after a success, and the users toggle the order of their lists.
ListNext ==
    \/ \E s \in Sessions : setAlphabetical(s)
    \/ \E s \in Sessions : \E r \in pending[s] : BackendAccept(s, r)
    \/ \E s \in Sessions : \E r \in pending[s] : \E m \in ErrorMessages : BackendReject(s, r, m)
    \/ \E s \in Sessions : \E r \in pending[s] : OnSubmitError(s, r)
    \/ \E s \in Sessions : \E r \in pending[s] : OnSubmitSuccess(s, r)
    \/ \E s \in Sessions : \E r \in pending[s] : OnDeleteError(s, r)
    \/ \E s \in Sessions : \E r \in pending[s] : OnDeleteSuccess(s, r)
    \/ \E s \in Sessions : SelectSpecies(s)
    \/ \E s \in Sessions : RefreshDeliver(s)

ListSpec == ListInit /\ [][ListNext]_vars

\* -------------------------------------------------------- EditEntryDialog

\* EditEntryDialog (src/unnamed/part_000) has the hooks of LearnMoreDialog
\* (isEditing, form), so its state is kept in the same variables.  Its
\* inputs are never read-only and its buttons are rendered for every user.

\* toast({ title: "Species information updated successfully!" })
EditEntryUpdatedToast ==
    [title |-> "Species information updated successfully!", arg |-> Null,
     description |-> "", variant |-> "default"]

\* typing into a field of EditEntryDialog's form
EditEntryType(s, f, v) ==
    /\ mounted[s] /\ open[s]
    /\ form[s][f] # v
    /\ form' = [form EXCEPT ![s][f] = v]
    /\ out' = Idle
    /\ UNCHANGED <<store, species, mounted, open, isEditing, isDeleting,
                   delStatement, pending, refreshes, nValidSubmits, nUpdates,
                   nDeletes, baseline>>
    /\ UNCHANGED <<page, fetching>>

\* click on "Edit Species" with a draft the resolver rejects
EditEntrySubmitInvalid(s) ==
    /\ mounted[s] /\ open[s]
    /\ ~HandleSubmitPasses(form[s])
    /\ out' = Emit(s, "submitEdit", Some(form[s]), Null, Null, FALSE)
    /\ UNCHANGED <<store, species, mounted, open, isEditing, isDeleting, form,
                   delStatement, pending, refreshes, nValidSubmits, nUpdates,
                   nDeletes, baseline>>
    /\ UNCHANGED <<page, fetching>>

\* click on "Edit Species" with a draft that parses: onSubmit(input) up to
\* its await
EditEntrySubmitValid(s) ==
    /\ mounted[s] /\ open[s]
    /\ HandleSubmitPasses(form[s])
    /\ Issued(s) < MaxRequests
    /\ nValidSubmits' = [nValidSubmits EXCEPT ![s] = @ + 1]
    /\ LET r == UpdateRequest(s, SchemaOut(form[s]))
       IN /\ pending' = [pending EXCEPT ![s] = @ \cup {r}]
          /\ out' = Emit(s, "submitEdit", Some(form[s]), Some(r), Null,
                         FALSE)
    /\ nUpdates' = [nUpdates EXCEPT ![s] = @ + 1]
    /\ UNCHANGED <<store, species, mounted, open, isEditing, isDeleting, form,
                   delStatement, refreshes, nDeletes, baseline>>
    /\ UNCHANGED <<page, fetching>>

\* onSubmit after its await, if (error): the toast and nothing else
EditEntryOnSubmitError(s, r) ==
    /\ r \in pending[s] /\ r.kind = "update" /\ r.result \in ErrorMessages
    /\ pending' = [pending EXCEPT ![s] = @ \ {r}]
    /\ out' = Emit(s, "updateError", Null, Some(r), Some(ErrorToast(r.result)),
                   FALSE)
    /\ UNCHANGED <<store, species, mounted, open, isEditing, isDeleting, form,
                   delStatement, refreshes, nValidSubmits, nUpdates, nDeletes,
                   baseline>>
    /\ UNCHANGED <<page, fetching>>

\* onSubmit after its await, no error: setIsEditing(false);
\* form.reset(input); the toast.  There is no router.refresh().
EditEntryOnSubmitSuccess(s, r) ==
    /\ r \in pending[s] /\ r.kind = "update" /\ r.result = "ok"
    /\ pending' = [pending EXCEPT ![s] = @ \ {r}]
    /\ isEditing' = [isEditing EXCEPT ![s] = FALSE]
    /\ form' = [form EXCEPT ![s] = Val(r.payload)]
    /\ baseline' = [baseline EXCEPT ![s] = Val(r.payload)]
    /\ out' = Emit(s, "updateOk", Null, Some(r), Some(EditEntryUpdatedToast),
                   FALSE)
    /\ UNCHANGED <<store, species, mounted, open, isDeleting, delStatement,
                   refreshes, nValidSubmits, nUpdates, nDeletes>>
    /\ UNCHANGED <<page, fetching>>

\* <DialogTrigger> / <DialogClose> and the form of EditEntryDialog, the
\* store answering, and the continuations of onSubmit
EditEntryNext ==
    \/ \E s \in Sessions : OpenDialog(s)
    \/ \E s \in Sessions : CloseDialog(s)
    \/ \E s \in Sessions : \E f \in Fields : \E v \in FieldInputs(f) : EditEntryType(s, f, v)
    \/ \E s \in Sessions : EditEntrySubmitInvalid(s)
    \/ \E s \in Sessions : EditEntrySubmitValid(s)
    \/ \E s \in Sessions : \E r \in pending[s] : BackendAccept(s, r)
    \/ \E s \in Sessions : \E r \in pending[s] : \E m \in ErrorMessages : BackendReject(s, r, m)
    \/ \E s \in Sessions : \E r \in pending[s] : EditEntryOnSubmitError(s, r)
    \/ \E s \in Sessions : \E r \in pending[s] : EditEntryOnSubmitSuccess(s, r)

\* The page of session s2, who is not the author of record 1, shows the
\* record's card with an EditEntryDialog; the author has no page open.
EditEntryInit ==
    /\ store = [i \in Ids |-> IF i = 1 THEN Some(Row1) ELSE Some(Row2)]
    /\ species = [s \in Sessions |-> Row1]
    /\ mounted = [s \in Sessions |-> s = "s2"]
    /\ open = [s \in Sessions |-> FALSE]
    /\ isEditing = [s \in Sessions |-> FALSE]
    /\ isDeleting = [s \in Sessions |-> FALSE]
    /\ form = [s \in Sessions |-> DefaultValues(Row1)]
    /\ delStatement = [s \in Sessions |-> DelFormInitial]
    /\ pending = [s \in Sessions |-> {}]
    /\ refreshes = [s \in Sessions |-> 0]
    /\ nValidSubmits = [s \in Sessions |-> 0]
    /\ nUpdates = [s \in Sessions |-> 0]
    /\ nDeletes = [s \in Sessions |-> 0]
    /\ baseline = [s \in Sessions |-> DefaultValues(Row1)]
    /\ page = [s \in Sessions |-> PageInitial]
    /\ fetching = [s \in Sessions |-> Null]
    /\ out = Idle

EditEntrySpec == EditEntryInit /\ [][EditEntryNext]_vars

\* ---------------------------------------------------------------- fairness

\* the store answers one of the dialog's requests
Respond(s) ==
    \E r \in pending[s] :
        BackendAccept(s, r) \/ \E m \in ErrorMessages : BackendReject(s, r, m)

\* the continuation of an await runs once its promise has settled
Resume(s) ==
    \E r \in pending[s] :
        \/ OnSubmitError(s, r)
        \/ OnSubmitSuccess(s, r)
        \/ OnDeleteError(s, r)
        \/ OnDeleteSuccess(s, r)

\* Every request is answered, and the event loop runs the handler's
\* continuation when the answer has arrived.
LiveSpec ==
    /\ Init /\ [][Next]_vars
    /\ \A s \in Sessions : WF_vars(Respond(s)) /\ WF_vars(Resume(s))

\* ------------------------------------------------- the resolver on drafts

\* Drafts of the edit form, field by field: names and texts that are empty,
\* blank, padded with white space or have white space inside; every kingdom
\* and two strings that are none; populations that are null, zero, negative,
\* fractional and positive; an image that is null, a URL, a padded URL,
\* empty, blank or no URL.
NameDrafts ==
    {<<>>, <<"\t", " ">>, <<"b">>, <<" ", "a", " ", "b", "\n">>}
TextDrafts ==
    {Null, Some(<<>>), Some(<<" ", "\n">>), Some(<<"g">>),
     Some(<<"\t", "g", " ", "d", " ">>)}
KingdomDrafts == kingdoms \cup {"Virus", "animalia"}
PopulationDrafts ==
    {Null, Some(Num(0, FALSE)), Some(Num(0 - 1, FALSE)), Some(Num(0, TRUE)),
     Some(Num(1, TRUE)), Some(Num(1, FALSE)), Some(Num(2, FALSE))}
ImageDrafts ==
    {Null, Some(<<"a", ":">>), Some(<<" ", "a", ":", " ">>), Some(<<>>),
     Some(<<" ">>), Some(<<"a">>)}
DescriptionDrafts == {Null, Some(<<" ">>), Some(<<"d", " ">>)}

Drafts ==
    [scientific_name : NameDrafts, common_name : TextDrafts,
     kingdom : KingdomDrafts, total_population : PopulationDrafts,
     image : ImageDrafts, description : DescriptionDrafts]

\* The author has opened the dialog of the record, clicked "Start Editing"
\* and filled the form: the draft is any of Drafts.
DraftInit ==
    /\ store = [i \in Ids |-> IF i = 1 THEN Some(Row1) ELSE Some(Row2)]
    /\ species = [s \in Sessions |-> Row1]
    /\ mounted = [s \in Sessions |-> TRUE]
    /\ open = [s \in Sessions |-> s = "s1"]
    /\ isEditing = [s \in Sessions |-> s = "s1"]
    /\ isDeleting = [s \in Sessions |-> FALSE]
    /\ \E d \in Drafts :
          form = [s \in Sessions |-> IF s = "s1" THEN d ELSE DefaultValues(Row1)]
    /\ delStatement = [s \in Sessions |-> DelFormInitial]
    /\ pending = [s \in Sessions |-> {}]
    /\ refreshes = [s \in Sessions |-> 0]
    /\ nValidSubmits = [s \in Sessions |-> 0]
    /\ nUpdates = [s \in Sessions |-> 0]
    /\ nDeletes = [s \in Sessions |-> 0]
    /\ baseline = [s \in Sessions |-> DefaultValues(Row1)]
    /\ page = [s \in Sessions |-> PageInitial]
    /\ fetching = [s \in Sessions |-> Null]
    /\ out = Idle

\* The draft is submitted and the request, if one is sent, is answered.
DraftNext ==
    \/ \E s \in Sessions : SubmitEditInvalid(s)
    \/ \E s \in Sessions : SubmitEditValid(s)
    \/ \E s \in Sessions : \E r \in pending[s] : BackendAccept(s, r)
    \/ \E s \in Sessions : \E r \in pending[s] : \E m \in ErrorMessages : BackendReject(s, r, m)
    \/ \E s \in Sessions : \E r \in pending[s] : OnSubmitError(s, r)
    \/ \E s \in Sessions : \E r \in pending[s] : OnSubmitSuccess(s, r)

DraftSpec == DraftInit /\ [][DraftNext]_vars

\* ----------------------------------------------------------------- claims

\* the user who created row id: the author column is never written
AuthorOf(id) == IF id = 1 THEN "u1" ELSE "u2"

\* the text the delete form asks for, spelled out
ExactChallenge(s) ==
    <<"D", "E", "L", "E", "T", "E", " ">> \o species[s].scientific_name

\* the last step ran in session s and sent a request of this kind (a
\* request whose response is being handled carries its result instead)
Sent(s, kind) ==
    /\ out.session = s
    /\ IF out.req = Null THEN FALSE
       ELSE Val(out.req).result = "sent" /\ Val(out.req).kind = kind

SentDelete(s) ==
    Sent(s, "delete") /\ Val(out.req).id = species[s].id

\* C1: when onDelete is called with a string, a delete request for the
\* record's id is sent if and only if the string is exactly "DELETE "
\* followed by species.scientific_name (no trimming, no case folding).
C1_DeleteIffExactChallenge ==
    \A s \in Sessions :
        (out.session = s /\ out.op = "submitDelete" /\ out.arg # Null)
            => (SentDelete(s) <=> Val(out.arg) = ExactChallenge(s))

\* C1 witness: the exact challenge was submitted and the request was sent.
C1_Witness ==
    \E s \in Sessions : SentDelete(s) /\ out.arg = Some(ExactChallenge(s))

\* C2: a delete request is sent only by the session of the record's
\* author, only from a dialog with isDeleting true, and only in the step in
\* which the typed text equalled the challenge; no other session ever has a
\* request outstanding for the record.
C2_DeleteOnlyByAuthorAfterGate ==
    \A s \in Sessions :
        /\ \A r \in pending[s] : UserId(s) = AuthorOf(r.id)
        /\ Sent(s, "delete")
            => /\ out.op = "submitDelete"
               /\ UserId(s) = AuthorOf(Val(out.req).id)
               /\ isDeleting[s]
               /\ out.arg = Some(ExactChallenge(s))

\* C2 witness: the author's dialog, in delete mode, has just sent a delete
\* request while the other session has its dialog open.
C2_Witness ==
    SentDelete("s1") /\ isDeleting["s1"] /\ open["s2"]

\* C3: a session that is not the record's author is offered none of the
\* start-edit, delete, submit and cancel controls, its flags isEditing and
\* isDeleting stay false, and it never sends an update or delete request.
C3_NonAuthorReadOnly ==
    \A s \in Sessions :
        UserId(s) # AuthorOf(species[s].id)
            => /\ Controls(s) \cap {"startEditing", "renderDelete",
                     "submitEdit", "submitDelete", "cancel"} = {}
               /\ ~isEditing[s] /\ ~isDeleting[s]
               /\ pending[s] = {}
               /\ nUpdates[s] = 0 /\ nDeletes[s] = 0

\* C3 witness: the non-author has the dialog open on a record its author has
\* meanwhile updated.
C3_Witness ==
    open["s2"] /\ mounted["s2"] /\ UserId("s2") # AuthorOf(species["s2"].id)
    /\ store[1] # Some(Row1)

\* C4: every submission of the delete form whose input is not the
\* challenge (a submission made before anything was typed included) is
\* rejected: the input is cleared to "", the "Improper deletion input"
\* toast is raised, isDeleting stays true, the edit form keeps its values
\* and no request is sent.
C4_MismatchRejected ==
    [][\A s \in Sessions :
          (out'.session = s /\ out'.op = "submitDelete"
           /\ delStatement[s] # Some(ExactChallenge(s)))
              => /\ delStatement'[s] = Some(<<>>)
                 /\ out'.toast = Some([title |-> "Something went wrong.",
                                       arg |-> Null,
                                       description |-> "Improper deletion input",
                                       variant |-> "destructive"])
                 /\ isDeleting'[s]
                 /\ form'[s] = form[s]
                 /\ out'.req = Null]_vars

\* C5: a submit of the edit form with a draft that fails validation sends no
\* request, raises no toast, leaves isEditing true and leaves the draft as
\* it was submitted.
C5_InvalidSubmitIsInert ==
    \A s \in Sessions :
        (out.session = s /\ out.op = "submitEdit"
         /\ ~SchemaValid(Val(out.arg)))
            => /\ out.req = Null
               /\ out.toast = Null
               /\ ~out.refresh
               /\ isEditing[s] /\ ~isDeleting[s]
               /\ form[s] = Val(out.arg)

\* C5 witness: the edit form was submitted with a blank scientific name.
C5_Witness ==
    \E s \in Sessions :
        /\ out.session = s /\ out.op = "submitEdit"
        /\ ~SchemaValid(Val(out.arg))
        /\ Trim(form[s].scientific_name) = <<>>

\* C6: when the response to an update request reports success, isEditing
\* is false and the form holds the payload that was sent, which is the
\* schema's output for the submitted draft.
C6_SuccessCommitsPayload ==
    \A s \in Sessions :
        (out.session = s /\ out.op = "updateOk")
            => /\ ~isEditing[s]
               /\ form[s] = Val(Val(out.req).payload)
               /\ Val(Val(out.req).payload) = SchemaOut(Val(Val(out.req).draft))

\* C6 witness: a successful update whose payload differs from the draft as
\* typed (the name was trimmed).
C6_Witness ==
    \E s \in Sessions :
        /\ out.session = s /\ out.op = "updateOk"
        /\ Val(out.req).payload # Val(out.req).draft
        /\ form[s].scientific_name = <<"b">>

\* C7: after an update request fails, the dialog is in Editing mode, the
\* draft is what the user submitted, and a toast carries the backend's
\* message, whatever the user clicked while the request was pending.
C7_FailureKeepsEditing ==
    \A s \in Sessions :
        (out.session = s /\ out.op = "updateError")
            => /\ isEditing[s]
               /\ form[s] = Val(Val(out.req).draft)
               /\ out.toast # Null
               /\ Val(out.toast).description = Val(out.req).result

\* C8: cancel from Editing leaves the dialog in Viewing, raises no toast and
\* restores every field to the baseline: the values last confirmed
\* committed (the initial row, or the payload of this dialog's most recent
\* successful update).
C8_CancelRestoresBaseline ==
    [][\A s \in Sessions :
          (out'.session = s /\ out'.op = "handleCancel"
           /\ isEditing[s] /\ ~isDeleting[s])
              => /\ ~isEditing'[s] /\ ~isDeleting'[s]
                 /\ out'.toast = Null
                 /\ form'[s] = baseline[s]]_vars

\* C9: the update requests a dialog has sent are as many as its submits that
\* passed validation (one request per submit, none re-sent after a
\* failure), and each is scoped to the dialog's record id.
C9_OneUpdatePerValidSubmit ==
    \A s \in Sessions :
        /\ nUpdates[s] = nValidSubmits[s]
        /\ \A r \in pending[s] : r.kind = "update" => r.id = species[s].id
        /\ Sent(s, "update") => out.op = "submitEdit"

\* C9 witness: both of a dialog's updates were sent and the failure of one
\* has just been handled.
C9_Witness ==
    \E s \in Sessions :
        /\ nUpdates[s] = MaxRequests
        /\ out.session = s /\ out.op = "updateError"

\* C10: a dialog has at most one request awaiting its response.
C10_AtMostOneOutstanding ==
    \A s \in Sessions : Cardinality(pending[s]) <= 1

\* the last step handled, in session s, the response op
Handled(o, s, ops) == o.session = s /\ o.op \in ops

\* C11: the step that handles a successful update or delete response calls
\* router.refresh() exactly once (the refreshes awaiting delivery grow by
\* one); no other step of the dialog (a failure response, a rejected or
\* invalid submit, a cancel) calls it.
C11_RefreshOncePerSuccess ==
    [][\A s \in Sessions :
          IF Handled(out', s, {"updateOk", "deleteOk"})
          THEN refreshes'[s] = refreshes[s] + 1 /\ out'.refresh
          ELSE /\ refreshes'[s] <= refreshes[s]
               /\ out'.session = s => ~out'.refresh]_vars

\* C11 witness: an update and then a delete succeeded and both re-fetches
\* are still under way.
C11_Witness ==
    \E s \in Sessions :
        Handled(out, s, {"deleteOk"}) /\ out.refresh /\ refreshes[s] = 2

\* C12: in the step that handles a successful delete response the
\* challenge input is "", both flags are false, the dialog is closed,
\* router.refresh() is called and the toast names the record's
\* scientific_name.
C12_DeleteSuccessClosesDialog ==
    \A s \in Sessions :
        Handled(out, s, {"deleteOk"})
            => /\ delStatement[s] = Some(<<>>)
               /\ ~isDeleting[s] /\ ~isEditing[s]
               /\ ~open[s]
               /\ out.refresh
               /\ out.toast = Some([title |-> "was successfully deleted",
                                    arg |-> Some(species[s].scientific_name),
                                    description |-> "",
                                    variant |-> "default"])

\* C13: the step that handles a failed delete response raises the error
\* toast with the backend's message, leaves the flags as they were (a
\* dialog in delete-confirm mode stays in it), calls no router.refresh()
\* and sends nothing.
C13_DeleteFailureStays ==
    [][\A s \in Sessions :
          Handled(out', s, {"deleteError"})
              => /\ out'.toast = Some([title |-> "Something went wrong.",
                                       arg |-> Null,
                                       description |-> Val(out'.req).result,
                                       variant |-> "destructive"])
                 /\ Val(out'.req).result \in ErrorMessages
                 /\ isDeleting'[s] = isDeleting[s]
                 /\ isEditing'[s] = isEditing[s]
                 /\ ~out'.refresh /\ refreshes'[s] = refreshes[s]
                 /\ nDeletes'[s] = nDeletes[s] /\ nUpdates'[s] = nUpdates[s]
                 /\ pending'[s] \subseteq pending[s]]_vars

\* C13 witness: a failed delete was handled and the dialog is still in
\* delete-confirm mode.
C13_Witness ==
    \E s \in Sessions :
        Handled(out, s, {"deleteError"}) /\ isDeleting[s] /\ ~isEditing[s]

\* the mode the flags stand for
ModeOf(editing, deleting) ==
    IF deleting THEN "ConfirmingDelete"
    ELSE IF editing THEN "Editing" ELSE "Viewing"

\* C14: the mode changes only by the table's transitions: Viewing to
\* Editing or to ConfirmingDelete by the author's click, Editing to Viewing
\* by an update success or cancel, ConfirmingDelete to Viewing by cancel;
\* a delete success closes a dialog in ConfirmingDelete; an update response
\* leaves the mode of a dialog not in Editing alone, a delete response that
\* of a dialog not in ConfirmingDelete.
C14_OnlyTableTransitions ==
    [][\A s \in Sessions :
          LET m == ModeOf(isEditing[s], isDeleting[s])
              n == ModeOf(isEditing'[s], isDeleting'[s])
          IN /\ (m # n)
                  => \/ /\ m = "Viewing"
                        /\ n \in {"Editing", "ConfirmingDelete"}
                        /\ UserId(s) = AuthorOf(species[s].id)
                     \/ /\ m = "Editing" /\ n = "Viewing"
                        /\ Handled(out', s, {"updateOk", "handleCancel"})
                     \/ /\ m = "ConfirmingDelete" /\ n = "Viewing"
                        /\ Handled(out', s, {"handleCancel"})
             /\ Handled(out', s, {"deleteOk"}) /\ m = "ConfirmingDelete"
                  => ~open'[s]
             /\ Handled(out', s, {"updateOk", "updateError"}) /\ m # "Editing"
                  => n = m
             /\ Handled(out', s, {"deleteOk", "deleteError"})
                /\ m # "ConfirmingDelete"
                  => n = m]_vars

\* C15: a dialog that is opened opens in Viewing: isEditing and isDeleting
\* are false, whatever they were when it was closed.
C15_OpensInViewing ==
    [][\A s \in Sessions :
          (~open[s] /\ open'[s]) => (~isEditing'[s] /\ ~isDeleting'[s])]_vars

\* C16: isEditing and isDeleting are never both true.
C16_NeverEditingAndDeleting ==
    \A s \in Sessions : ~(isEditing[s] /\ isDeleting[s])

\* C16 witness: the response to a delete request arrives in a dialog that
\* has meanwhile left the delete form and entered Editing.
C16_Witness ==
    \E s \in Sessions :
        Handled(out, s, {"deleteError"}) /\ isEditing[s] /\ ~isDeleting[s]

\* ---------------------------------------------- claims about the resolver

\* the white space of the claims, spelled out
Blank(c) == c = " " \/ c = "\t" \/ c = "\n"
AllBlank(v) == \A i \in 1..Len(v) : Blank(v[i])

\* t is v without its leading and trailing white space
IsTrimOf(t, v) ==
    /\ t # <<>> /\ ~Blank(t[1]) /\ ~Blank(t[Len(t)])
    /\ \E i \in 1..Len(v) : \E j \in i..Len(v) :
          /\ t = SubSeq(v, i, j)
          /\ \A k \in 1..(i - 1) : Blank(v[k])
          /\ \A k \in (j + 1)..Len(v) : Blank(v[k])

\* r is what validation is to make of the nullable text o
NormalizedFrom(r, o) ==
    IF o = Null THEN r = Null
    ELSE IF AllBlank(Val(o)) THEN r = Null
    ELSE r # Null /\ IsTrimOf(Val(r), Val(o))

\* the last step was a submit of the edit form in session s
Submitted(s) == out.session = s /\ out.op = "submitEdit"

\* C17: for the common_name and the description of every draft, the
\* transform yields null when the text is empty or all white space and the
\* trimmed text otherwise, applying it again changes nothing, and a request
\* that is sent carries these values.
C17_BlankTextBecomesNull ==
    \A s \in Sessions : \A f \in {"common_name", "description"} :
        LET r == NullIfBlank(form[s][f])
        IN /\ NormalizedFrom(r, form[s][f])
           /\ NullIfBlank(r) = r
           /\ (Submitted(s) /\ out.req # Null)
                => LET q == Val(out.req)
                   IN /\ NormalizedFrom(Val(q.payload)[f], Val(q.draft)[f])
                      /\ NullIfBlank(Val(q.payload)[f]) = Val(q.payload)[f]

\* C17 witness: a request was sent for a draft whose common_name is all
\* white space and whose description needs trimming.
C17_Witness ==
    \E s \in Sessions :
        /\ Submitted(s) /\ out.req # Null
        /\ Val(out.arg).common_name = Some(<<" ", "\n">>)
        /\ Val(out.arg).description = Some(<<"d", " ">>)
        /\ Val(Val(out.req).payload).common_name = Null
        /\ Val(Val(out.req).payload).description = Some(<<"d">>)

\* the six kingdoms, spelled out
SixKingdoms ==
    {"Animalia", "Plantae", "Fungi", "Protista", "Archaea", "Bacteria"}

\* the fields of draft d other than f pass validation
OthersValid(d, f) ==
    /\ f = "scientific_name" \/ ScientificNameValid(d.scientific_name)
    /\ f = "kingdom" \/ KingdomValid(d.kingdom)
    /\ f = "total_population" \/ TotalPopulationValid(d.total_population)
    /\ f = "image" \/ ImageValid(d.image)

\* C18: a submit whose kingdom is none of the six sends no update request;
\* a kingdom that is one of the six passes: the submit sends the request
\* when the other fields are valid.
C18_KingdomOutsideEnumRejected ==
    \A s \in Sessions :
        Submitted(s)
            => LET d == Val(out.arg)
               IN /\ d.kingdom \notin SixKingdoms
                    => (out.req = Null /\ nUpdates[s] = 0)
                  /\ (d.kingdom \in SixKingdoms /\ OthersValid(d, "kingdom"))
                    => out.req # Null

\* C18 witness: a draft that is valid but for its kingdom was submitted.
C18_Witness ==
    \E s \in Sessions :
        /\ Submitted(s) /\ out.req = Null
        /\ Val(out.arg).kingdom = "Virus"
        /\ OthersValid(Val(out.arg), "kingdom")

\* the number is an integer >= 1
IntegerAtLeastOne(x) == ~x.half /\ x.units >= 1

\* C19: a submit whose total_population is zero, negative or not an integer
\* sends no update request; null and every integer >= 1 pass: the submit
\* sends the request when the other fields are valid.
C19_PopulationMustBePositiveInteger ==
    \A s \in Sessions :
        Submitted(s)
            => LET d == Val(out.arg)
                   p == d.total_population
                   good == IF p = Null THEN TRUE ELSE IntegerAtLeastOne(Val(p))
               IN /\ ~good => (out.req = Null /\ nUpdates[s] = 0)
                  /\ (good /\ OthersValid(d, "total_population"))
                    => out.req # Null

\* C19 witness: a draft that is valid but for a population of one half was
\* submitted.
C19_Witness ==
    \E s \in Sessions :
        /\ Submitted(s) /\ out.req = Null
        /\ Val(out.arg).total_population = Some([units |-> 0, half |-> TRUE])
        /\ OthersValid(Val(out.arg), "total_population")

\* the record invariants on the six written fields
RecordInvariant(p) ==
    /\ p.scientific_name # <<>>
    /\ ~Blank(p.scientific_name[1])
    /\ ~Blank(p.scientific_name[Len(p.scientific_name)])
    /\ p.kingdom \in SixKingdoms
    /\ IF p.total_population = Null THEN TRUE
       ELSE IntegerAtLeastOne(Val(p.total_population))
    /\ \A f \in {"common_name", "description"} :
          IF p[f] = Null THEN TRUE
          ELSE /\ Val(p[f]) # <<>>
               /\ ~Blank(Val(p[f])[1])
               /\ ~Blank(Val(p[f])[Len(Val(p[f]))])

\* C20: the payload of every update request satisfies the record
\* invariants, and so does every row of the store after any updates.
C20_PayloadKeepsRecordInvariants ==
    /\ \A s \in Sessions : \A r \in pending[s] :
          r.kind = "update" => RecordInvariant(Val(r.payload))
    /\ \A i \in Ids : store[i] # Null => RecordInvariant(Val(store[i]))

\* C20 witness: the store holds a row written by an update whose draft had
\* to be normalized.
C20_Witness ==
    /\ store[1] # Null
    /\ Val(store[1]).scientific_name = <<"a", " ", "b">>
    /\ Val(store[1]).common_name = Null
    /\ \E s \in Sessions :
          /\ out.session = s /\ out.op = "updateOk"
          /\ Val(Val(out.req).draft).common_name = Some(<<" ", "\n">>)

\* ------------------------------------- claims about props, frame and order

\* C23: with no re-fetch under way and no request outstanding, an open
\* dialog in Viewing mode shows the values of the record its last fetch
\* delivered (its species prop).
C23_ViewingShowsFetchedRecord ==
    \A s \in Sessions :
        (mounted[s] /\ open[s] /\ ~isEditing[s] /\ ~isDeleting[s]
         /\ refreshes[s] = 0 /\ pending[s] = {})
            => /\ form[s].scientific_name = species[s].scientific_name
               /\ form[s].common_name = species[s].common_name
               /\ form[s].kingdom = species[s].kingdom
               /\ form[s].total_population = species[s].total_population
               /\ form[s].image = species[s].image
               /\ form[s].description = species[s].description

\* C26: while the delete form is shown, the challenge it compares against
\* and displays is "DELETE " followed by the scientific_name this dialog
\* last committed, also before the re-fetch has delivered the renamed
\* record.
C26_ChallengeUsesCommittedName ==
    \A s \in Sessions :
        (mounted[s] /\ open[s] /\ isDeleting[s])
            => Challenge(species[s])
                 = <<"D", "E", "L", "E", "T", "E", " ">>
                     \o baseline[s].scientific_name

\* C27: a response handled right after the user cancelled (so to a request
\* issued before the cancel) leaves the mode and the form's values as the
\* cancel left them.
C27_CancelledDraftStaysDiscarded ==
    [][\A s \in Sessions :
          (Handled(out, s, {"handleCancel"})
           /\ Handled(out', s, {"updateOk", "updateError", "deleteOk",
                                "deleteError"}))
              => /\ isEditing'[s] = isEditing[s]
                 /\ isDeleting'[s] = isDeleting[s]
                 /\ form'[s] = form[s]]_vars

\* the fields an update writes
WrittenFields ==
    {"scientific_name", "common_name", "kingdom", "total_population",
     "image", "description"}

\* C28: a row of the store changes only by a request sent for its id by a
\* dialog whose species.id is that id; an update leaves the row's id and
\* author as they were and its payload has exactly the six written fields;
\* so every row keeps its id and its author.
C28_IdAndAuthorNeverChange ==
    [][/\ \A i \in Ids :
            store'[i] # store[i]
                => /\ \E s \in Sessions : \E r \in pending[s] :
                         /\ r.id = i /\ species[s].id = i
                         /\ r.result = "sent"
                         /\ r.kind = "update"
                              => DOMAIN Val(r.payload) = WrittenFields
                   /\ store'[i] # Null
                         => /\ Val(store'[i]).id = Val(store[i]).id
                            /\ Val(store'[i]).author = Val(store[i]).author
       /\ \A i \in Ids :
            store'[i] # Null
                => Val(store'[i]).id = i /\ Val(store'[i]).author = AuthorOf(i)
      ]_vars

\* C28 witness: an update and then a delete of record 1 were applied and
\* record 2 is as it was.
C28_Witness ==
    /\ store[1] = Null /\ store[2] # Null
    /\ Val(store[2]).author = "u2"
    /\ nUpdates["s1"] = 1 /\ nDeletes["s1"] = 1
    /\ pending["s1"] = {}

\* C29: a submit whose total_population is what clearing the input leaves
\* in the form (+"" in the onChange, the number 0) passes validation when
\* the other fields are valid, and the request's payload has
\* total_population null.
C29_ClearedPopulationBecomesNull ==
    \A s \in Sessions :
        (Submitted(s)
         /\ Val(out.arg).total_population = Some([units |-> 0, half |-> FALSE])
         /\ OthersValid(Val(out.arg), "total_population"))
            => /\ out.req # Null
               /\ Val(Val(out.req).payload).total_population = Null

\* C24: for the image of a submitted draft whose other fields are valid: an
\* empty or blank text sends the request with image null, a URL sends it
\* with the trimmed URL, and any other text sends no request.
C24_ImageBlankBecomesNull ==
    \A s \in Sessions :
        (Submitted(s) /\ OthersValid(Val(out.arg), "image")
         /\ Val(out.arg).image # Null)
            => LET v == Val(Val(out.arg).image)
               IN IF AllBlank(v)
                  THEN /\ out.req # Null
                       /\ Val(Val(out.req).payload).image = Null
                  ELSE IF IsUrl(v)
                  THEN /\ out.req # Null
                       /\ Val(Val(out.req).payload).image # Null
                       /\ IsTrimOf(Val(Val(Val(out.req).payload).image), v)
                  ELSE out.req = Null

\* the toast a handler is to raise for the answered request r
NotificationFor(t, r) ==
    /\ t # Null
    /\ IF r.result = "ok"
       THEN Val(t).variant = "default"
       ELSE /\ Val(t).variant = "destructive"
            /\ Val(t).description = r.result

\* C30: every request a dialog has outstanding is followed by a state in
\* which the dialog has none; a request leaves the outstanding ones only in
\* the step that raises its one toast (success, or the error with the
\* backend's message), an answered request is never sent again, and an open
\* dialog in Editing or in the delete form always has cancel enabled.
C30_EveryRequestNotifiedOnce ==
    /\ \A s \in Sessions : (pending[s] # {}) ~> (pending[s] = {})
    /\ [][\A s \in Sessions :
             /\ \A r \in pending[s] :
                   (\A q \in pending'[s] : q.n # r.n)
                       => /\ out'.session = s /\ out'.req = Some(r)
                          /\ r.result # "sent"
                          /\ NotificationFor(out'.toast, r)
             /\ \A r \in pending[s] : \A q \in pending'[s] :
                   (q.n = r.n /\ q # r) => r.result = "sent"
             /\ \A q \in pending'[s] :
                   (\A r \in pending[s] : r.n # q.n)
                       => q.n = nUpdates[s] + nDeletes[s] + 1
         ]_vars
    /\ [](\A s \in Sessions :
             (mounted[s] /\ open[s] /\ (isEditing[s] \/ isDeleting[s]))
                 => ENABLED handleCancel(s))

\* C30 witness: the dialog has sent all its requests, none is outstanding,
\* and the last one, a delete, failed and was notified.
C30_Witness ==
    \E s \in Sessions :
        /\ nUpdates[s] + nDeletes[s] = MaxRequests /\ pending[s] = {}
        /\ Handled(out, s, {"deleteError"}) /\ out.toast # Null
        /\ isDeleting[s]

\* C25: in EditEntryDialog too, an update request is sent only by the
\* session of the record's author, and the step that handles a successful
\* update calls router.refresh().
C25_EveryVariantGuardsAndRefetches ==
    \A s \in Sessions :
        /\ Sent(s, "update") => UserId(s) = AuthorOf(Val(out.req).id)
        /\ Handled(out, s, {"updateOk"})
             => (out.refresh /\ refreshes[s] > 0)

\* ------------------------------------------- claims about the list presenter

\* the records a list holds
RecordsOf(q) == {q[i] : i \in 1..Len(q)}
IdsOf(q) == {q[i].id : i \in 1..Len(q)}

\* C21: a click on the order button only negates the alphabetical flag of
\* that page (so the other list is displayed, and a second click displays
\* the first again): both held lists stay as they are, no request of any
\* kind is sent or asked for.
C21_ToggleOnlyChangesDisplay ==
    [][\A s \in Sessions :
          Handled(out', s, {"setAlphabetical"})
              => /\ page'[s].alphabetical = ~page[s].alphabetical
                 /\ page'[s].species = page[s].species
                 /\ page'[s].alphaSpecies = page[s].alphaSpecies
                 /\ \A t \in Sessions \ {s} : page'[t] = page[t]
                 /\ out'.req = Null /\ ~out'.refresh
                 /\ pending' = pending /\ refreshes' = refreshes
                 /\ fetching' = fetching /\ store' = store
                 /\ nUpdates' = nUpdates /\ nDeletes' = nDeletes]_vars

\* C21 witness: the page shows the chronological list again after two
\* clicks, while its lists are being fetched anew.
C21_Witness ==
    \E s \in Sessions :
        /\ Handled(out, s, {"setAlphabetical"})
        /\ ~page[s].alphabetical /\ fetching[s] # Null
        /\ page[s].species # page[s].alphaSpecies

\* C22: the two lists a page holds list the same records.
C22_ListsHoldSameRecords ==
    \A s \in Sessions :
        /\ RecordsOf(page[s].species) = RecordsOf(page[s].alphaSpecies)
        /\ IdsOf(page[s].species) = IdsOf(page[s].alphaSpecies)

====
